---- MODULE Spec2Model ----
(***************************************************************************)
(* Focus-mode server of gradle-focus-mode: the dependency graph built from *)
(* the project manifests, the included set computed from a focus selection *)
(* and a hop bound, and the persisted focus configuration.                 *)
(*                                                                         *)
(* Text (file contents, identifiers) is a sequence of one-character        *)
(* strings, so that formatting and parsing are modelled by what they do.   *)
(***************************************************************************)
EXTENDS Integers, Sequences, FiniteSets, TLC

\* ------------------------------------------------------------------ bounds
\* Size of the project universe in the model (the source enumerates 1..100).
NumProjects == 5
\* Longest list of dependency directives in one manifest.
MaxDeps == 1
\* Longest focused list handed to computeIncluded.
MaxFocus == 2
\* Largest hop bound handed to computeIncluded.
MaxHops == 3

\* -------------------------------------------------------------------- text
DigitChars == <<"0", "1", "2", "3", "4", "5", "6", "7", "8", "9">>

IsDigit(c) == \E d \in 1..10 : DigitChars[d] = c

DigitValue(c) == (CHOOSE d \in 1..10 : DigitChars[d] = c) - 1

\* String(i) / `${n}` for a non-negative integer: its decimal digits.
RECURSIVE Decimal(_)
Decimal(n) ==
    IF n < 10 THEN <<DigitChars[n + 1]>>
    ELSE Decimal(n \div 10) \o <<DigitChars[(n % 10) + 1]>>

\* s.padStart(3, '0'): zeros in front until the length is 3; longer text is kept.
RECURSIVE PadStart3(_)
PadStart3(s) == IF Len(s) >= 3 THEN s ELSE PadStart3(<<"0">> \o s)

ProjectPrefix == <<"p", "r", "o", "j", "e", "c", "t", "-">>

\* `project-${String(i).padStart(3, '0')}`
ProjectName(digits) == ProjectPrefix \o PadStart3(digits)

ProjectId(i) == ProjectName(Decimal(i))

\* The project registry, in enumeration order, and as a set.
projects == [i \in 1..NumProjects |-> ProjectId(i)]

allProjects == {projects[i] : i \in 1..NumProjects}

\* ------------------------------------------------------------------- state
VARIABLES
    manifests,      \* project id -> [exists, deps]: the build.gradle files
    depMap,         \* forward adjacency, a JS object: key -> list of ids
    reverseDepMap,  \* reverse adjacency, a JS object: key -> list of ids
    configFile,     \* focus-config.gradle: [exists, content]
    op,             \* the last operation and its arguments
    ret,            \* what the last operation returned
    walk,           \* a computeIncluded call in progress, statement by statement
    worktree,       \* the working tree as git sees it: path -> status code or clean
    polling,        \* the interval timer is armed and the process is up
    ticks,          \* how many times the interval timer has fired
    execs,          \* the git status child processes in flight, by tick number
    lastKnownChanges, \* the dirty paths of the last handled status output
    handled,        \* what the most recent exec callback saw and did, if any ran
    imlDir,         \* whether the directory .idea/modules exists
    imlFile         \* .idea/modules/focus-mode.iml: [exists, content]

watchVars == <<worktree, polling, ticks, execs, lastKnownChanges, handled>>

ideaVars == <<imlDir, imlFile>>

vars == <<manifests, depMap, reverseDepMap, configFile, op, ret, walk,
          worktree, polling, ticks, execs, lastKnownChanges, handled, imlDir, imlFile>>

\* A JS object used as a map: m[k] || []
Lookup(m, k) == IF k \in DOMAIN m THEN m[k] ELSE <<>>

EmptyMap == [k \in {} |-> <<>>]

\* m[k] = v on a JS object
Put(m, k, v) == [x \in (DOMAIN m) \cup {k} |-> IF x = k THEN v ELSE m[x]]

\* --------------------------------------------------------------- buildGraph
\* The directives matched in one manifest, mapped to project names.
ManifestDeps(manifest) ==
    [j \in 1..Len(manifest.deps) |-> ProjectName(manifest.deps[j])]

\* Mutant: a dependent is pushed only when the list does not hold it yet.
RECURSIVE MutPushOnce(_, _, _, _)
MutPushOnce(rev, deps, j, proj) ==
    IF j > Len(deps) THEN rev
    ELSE LET old == IF deps[j] \in DOMAIN rev THEN rev[deps[j]] ELSE <<>>
             new == IF \E k \in 1..Len(old) : old[k] = proj THEN old
                    ELSE Append(old, proj)
         IN  MutPushOnce([x \in (DOMAIN rev) \cup {deps[j]} |->
                             IF x = deps[j] THEN new ELSE rev[x]],
                         deps, j + 1, proj)

\* depMap[proj].forEach(dep => { reverseDepMap[dep] ||= []; push(proj) })
RECURSIVE PushDependents(_, _, _, _)
PushDependents(rev, deps, j, proj) ==
    IF j > Len(deps) THEN rev
    ELSE PushDependents(Put(rev, deps[j], Append(Lookup(rev, deps[j]), proj)),
                        deps, j + 1, proj)

\* Mutant: no else branch, a project without a manifest gets no depMap entry.
RECURSIVE MutNoElseBranch(_, _, _)
MutNoElseBranch(files, i, maps) ==
    IF i > NumProjects THEN maps
    ELSE LET proj == projects[i]
         IN  IF files[proj].exists
             THEN MutNoElseBranch(files, i + 1,
                      [depMap |-> Put(maps.depMap, proj, ManifestDeps(files[proj])),
                       reverseDepMap |->
                           PushDependents(maps.reverseDepMap,
                                          ManifestDeps(files[proj]), 1, proj)])
             ELSE MutNoElseBranch(files, i + 1, maps)

\* projects.forEach(proj => ...) from index i on, over the maps built so far.
RECURSIVE BuildFrom(_, _, _)
BuildFrom(files, i, maps) ==
    IF i > NumProjects THEN maps
    ELSE LET proj == projects[i]
             deps == IF files[proj].exists THEN ManifestDeps(files[proj]) ELSE <<>>
         IN  BuildFrom(files, i + 1,
                 [depMap |-> Put(maps.depMap, proj, deps),
                  reverseDepMap |->
                      PushDependents(maps.reverseDepMap, deps, 1, proj)])

buildGraph(files) == BuildFrom(files, 1, [depMap |-> EmptyMap, reverseDepMap |-> EmptyMap])

\* Mutant: only the forward map is cleared before a build.
MutKeepReverse(maps) == [depMap |-> EmptyMap, reverseDepMap |-> maps.reverseDepMap]

\* depMap = {}; reverseDepMap = {}; at the start of a build, whatever the
\* globals hold.
ResetMaps(maps) == [depMap |-> EmptyMap, reverseDepMap |-> EmptyMap]

\* const nodes = projects.map(proj => ({ id: proj, label: proj }))
Nodes == [i \in 1..NumProjects |-> [id |-> projects[i], label |-> projects[i]]]

\* Object.entries(depMap).forEach(([from, deps]) => deps.forEach(to =>
\* edges.push({ from, to }))): the keys come in insertion order, which is the
\* registry order.
RECURSIVE EdgesFrom(_, _)
EdgesFrom(dm, i) ==
    IF i > NumProjects THEN <<>>
    ELSE LET from == projects[i]
             deps == Lookup(dm, from)
         IN  [j \in 1..Len(deps) |-> [from |-> from, to |-> deps[j]]]
                 \o EdgesFrom(dm, i + 1)

\* What buildGraph returns once the maps are built.
GraphOf(maps) == [nodes |-> Nodes, edges |-> EdgesFrom(maps.depMap, 1)]

\* ---------------------------------------------------------- computeIncluded
Elems(s) == {s[i] : i \in 1..Len(s)}

\* Mutant: an empty focused list is walked like any other list.
MutNeverNoFocus(focusedProjects) == FALSE

\* if (focusedProjects.length === 0): when no projects are focused, include all
NoFocus(focusedProjects) == Len(focusedProjects) = 0

\* Mutant: the walk follows the forward adjacency (dependencies).
MutDependenciesOf(proj) == Lookup(depMap, proj)

\* const dependents = reverseDepMap[proj] || []
DependentsOf(proj) == Lookup(reverseDepMap, proj)

\* Mutant: the loop recurses into every dependent, included already or not.
MutAlwaysRecurse(dep, included) == TRUE

\* The recursion guard of the dependents loop: if (!included.has(dep))
NotYetIncluded(dep, included) == dep \notin included

\* Mutant: the dependents loop also runs when no hop is left.
MutExpandsAtZero(hops) == hops >= 0

\* if (hops > 0) around the dependents loop
Expands(hops) == hops > 0

\* addDependents and its dependents.forEach loop; the two sets are shared by
\* reference in the source, so both are threaded through and returned.
RECURSIVE addDependents(_, _, _, _), DependentsLoop(_, _, _, _, _)
addDependents(proj, hops, included, visited) ==
    IF hops < 0 \/ proj \in visited
    THEN [included |-> included, visited |-> visited]
    ELSE LET dependents == DependentsOf(proj)
         IN  IF Expands(hops)
             THEN DependentsLoop(dependents, 1, hops, included, visited \cup {proj})
             ELSE [included |-> included, visited |-> visited \cup {proj}]

DependentsLoop(dependents, j, hops, included, visited) ==
    IF j > Len(dependents) THEN [included |-> included, visited |-> visited]
    ELSE LET dep == dependents[j]
         IN  IF NotYetIncluded(dep, included)
             THEN LET r == addDependents(dep, hops - 1, included \cup {dep}, visited)
                  IN  DependentsLoop(dependents, j + 1, hops, r.included, r.visited)
             ELSE DependentsLoop(dependents, j + 1, hops, included, visited)

\* focusedProjects.forEach(proj => { included.add(proj); addDependents(...) })
RECURSIVE FocusedLoop(_, _, _, _)
FocusedLoop(focusedProjects, i, hops, included) ==
    IF i > Len(focusedProjects) THEN included
    ELSE LET proj == focusedProjects[i]
             r == addDependents(proj, hops, included \cup {proj}, {})
         IN  FocusedLoop(focusedProjects, i + 1, hops, r.included)

computeIncluded(focusedProjects, downstreamHops) ==
    IF NoFocus(focusedProjects)
    THEN allProjects
    ELSE FocusedLoop(focusedProjects, 1, downstreamHops, {})

\* computeIncluded of focus-ui/server.js: the forEach alone, with no branch
\* for an empty list; its addDependents is the same text as above, and its
\* reverseDepMap is filled by the same buildGraph from the same manifests.
computeIncluded_focusUi(focusedProjects, downstreamHops) ==
    FocusedLoop(focusedProjects, 1, downstreamHops, {})

\* ------------------------------------------------------------ ConfigStore
AbsentFile == [exists |-> FALSE, content |-> <<>>]

\* \s of the patterns and the white space String.trim removes.
WhiteSpace == {" ", "\n", "\t", "\r"}

Quotes == {"'", "\""}

Digits == {DigitChars[d] : d \in 1..10}

Min(S) == CHOOSE x \in S : \A y \in S : x <= y

Max(S) == CHOOSE x \in S : \A y \in S : x >= y

\* The literal lit stands in text at position i.
StartsAt(text, i, lit) ==
    /\ i + Len(lit) - 1 <= Len(text)
    /\ SubSeq(text, i, i + Len(lit) - 1) = lit

\* c* for a character class S, greedy from position i: the first position
\* that is past the text or holds a character outside S.
RunEnd(text, i, S) ==
    CHOOSE k \in i..(Len(text) + 1) :
        /\ \A m \in i..(k - 1) : text[m] \in S
        /\ IF k = Len(text) + 1 THEN TRUE ELSE text[k] \notin S

\* [^c]* for a negated class, greedy from position i.
RunEndNot(text, i, S) ==
    CHOOSE k \in i..(Len(text) + 1) :
        /\ \A m \in i..(k - 1) : text[m] \notin S
        /\ IF k = Len(text) + 1 THEN TRUE ELSE text[k] \in S

FocusedKey ==
    <<"e", "x", "t", ".", "f", "o", "c", "u", "s", "e", "d", "P", "r", "o", "j", "e", "c", "t", "s">>

HopsKey ==
    <<"e", "x", "t", ".", "d", "o", "w", "n", "s", "t", "r", "e", "a", "m", "H", "o", "p", "s">>

NoMatch == [found |-> FALSE, group |-> <<>>]

\* key\s*=\s* at position i: the position after it, or 0 when it does not match.
AssignAt(text, i, key) ==
    IF ~StartsAt(text, i, key) THEN 0
    ELSE LET e == RunEnd(text, i + Len(key), WhiteSpace)
         IN  IF e <= Len(text) /\ text[e] = "="
             THEN RunEnd(text, e + 1, WhiteSpace)
             ELSE 0

\* /ext\.focusedProjects\s*=\s*\[([^\]]*)\]/ tried at position i.
FocusedMatchAt(text, i) ==
    LET v == AssignAt(text, i, FocusedKey)
    IN  IF v = 0 \/ v > Len(text) THEN NoMatch
        ELSE IF text[v] # "[" THEN NoMatch
        ELSE LET e == RunEndNot(text, v + 1, {"]"})
             IN  IF e > Len(text) THEN NoMatch
                 ELSE [found |-> TRUE, group |-> SubSeq(text, v + 1, e - 1)]

\* /ext\.downstreamHops\s*=\s*(\d+)/ tried at position i.
HopsMatchAt(text, i) ==
    LET v == AssignAt(text, i, HopsKey)
    IN  IF v = 0 \/ v > Len(text) THEN NoMatch
        ELSE IF text[v] \notin Digits THEN NoMatch
        ELSE [found |-> TRUE, group |-> SubSeq(text, v, RunEnd(text, v, Digits) - 1)]

\* content.match(pattern): the leftmost position where the pattern matches.
FocusedMatch(text) ==
    LET at == {i \in 1..Len(text) : FocusedMatchAt(text, i).found}
    IN  IF at = {} THEN NoMatch ELSE FocusedMatchAt(text, Min(at))

HopsMatch(text) ==
    LET at == {i \in 1..Len(text) : HopsMatchAt(text, i).found}
    IN  IF at = {} THEN NoMatch ELSE HopsMatchAt(text, Min(at))

\* listStr.split(',')
RECURSIVE Split(_)
Split(s) ==
    LET commas == {i \in 1..Len(s) : s[i] = ","}
    IN  IF commas = {} THEN <<s>>
        ELSE <<SubSeq(s, 1, Min(commas) - 1)>>
                 \o Split(SubSeq(s, Min(commas) + 1, Len(s)))

\* s.trim()
Trim(s) ==
    LET solid == {i \in 1..Len(s) : s[i] \notin WhiteSpace}
    IN  IF solid = {} THEN <<>> ELSE SubSeq(s, Min(solid), Max(solid))

\* Mutant: the quotes around a member are kept.
MutKeepQuotes(s) == s

\* s.replace(/^['"]|['"]$/g, ''): one quote off the front, one off the end.
Unquote(s) ==
    LET front == IF Len(s) > 0 /\ s[1] \in Quotes THEN Tail(s) ELSE s
    IN  IF Len(front) > 0 /\ front[Len(front)] \in Quotes
        THEN SubSeq(front, 1, Len(front) - 1)
        ELSE front

\* parseInt of a run of decimal digits
RECURSIVE parseInt(_)
parseInt(digits) ==
    IF Len(digits) = 0 THEN 0
    ELSE parseInt(SubSeq(digits, 1, Len(digits) - 1)) * 10
             + DigitValue(digits[Len(digits)])

\* listStr.split(',').map(s => s.trim().replace(...)).filter(s => s)
ParseList(listStr) ==
    LET parts == Split(listStr)
        cleaned == [i \in 1..Len(parts) |-> Unquote(Trim(parts[i]))]
    IN  SelectSeq(cleaned, LAMBDA s : Len(s) > 0)

\* Mutant: a file without a hop statement reads as hop bound 0.
MutDefaultHopsZero(hopsMatch) ==
    IF hopsMatch.found THEN parseInt(hopsMatch.group) ELSE 0

\* hopsMatch ? parseInt(hopsMatch[1]) : 1
HopsOf(hopsMatch) ==
    IF hopsMatch.found THEN parseInt(hopsMatch.group) ELSE 1

readConfig(file) ==
    IF ~file.exists
    THEN [focusedProjects |-> <<>>, downstreamHops |-> 1]
    ELSE LET focusedMatch == FocusedMatch(file.content)
             hopsMatch == HopsMatch(file.content)
         IN  [focusedProjects |->
                  IF focusedMatch.found THEN ParseList(focusedMatch.group) ELSE <<>>,
              downstreamHops |-> HopsOf(hopsMatch)]

\* Mutant: members are joined by a bare comma.
MutCommaOnly == <<",">>

\* join(', ')
Separator == <<",", " ">>

\* focusedProjects.map(p => `'${p}'`).join(', ') from index i on
RECURSIVE JoinQuoted(_, _)
JoinQuoted(focusedProjects, i) ==
    IF i > Len(focusedProjects) THEN <<>>
    ELSE (IF i > 1 THEN Separator ELSE <<>>)
             \o <<"'">> \o focusedProjects[i] \o <<"'">>
             \o JoinQuoted(focusedProjects, i + 1)

\* `ext.focusedProjects = [${focusedStr}]\next.downstreamHops = ${downstreamHops}`
ConfigText(focusedProjects, downstreamHops) ==
    FocusedKey \o <<" ", "=", " ", "[">> \o JoinQuoted(focusedProjects, 1)
        \o <<"]", "\n">> \o HopsKey \o <<" ", "=", " ">> \o Decimal(downstreamHops)

\* fs.writeFileSync(configPath, config): the file holds config and nothing else.
writeConfig(focusedProjects, downstreamHops) ==
    [exists |-> TRUE, content |-> ConfigText(focusedProjects, downstreamHops)]

\* ---------------------------------------------------- state left untouched
\* No path of the working tree is dirty.
Clean == <<>>

\* let lastKnownChanges = new Set(): the watcher before its first tick, over a
\* working tree with no tracked path.
WatcherIdle ==
    /\ worktree = <<>>
    /\ polling = TRUE
    /\ ticks = 0
    /\ execs = <<>>
    /\ lastKnownChanges = {}
    /\ handled = <<>>

\* Neither the directory .idea/modules nor the descriptor exists yet.
NoDescriptor ==
    /\ imlDir = FALSE
    /\ imlFile = AbsentFile

\* ------------------------------------------- computeIncluded, step by step
\* The same call as a machine: one step per statement that calls or loops.
\* stack holds the addDependents invocations that are inside their
\* dependents.forEach, innermost last: [proj, hops, j] with j the next index.
IdleWalk ==
    [pc |-> "idle", seed |-> 0, stack |-> <<>>, included |-> {}, visited |-> {},
     calls |-> 0, steps |-> 0]

\* One invocation addDependents(proj, hops, included, visited) up to the point
\* where it returns at once or enters its loop.
Enter(w, proj, hops) ==
    IF hops < 0 \/ proj \in w.visited
    THEN [w EXCEPT !.calls = @ + 1]
    ELSE IF Expands(hops)
         THEN [w EXCEPT !.calls = @ + 1, !.visited = @ \cup {proj},
                        !.stack = Append(@, [proj |-> proj, hops |-> hops, j |-> 1])]
         ELSE [w EXCEPT !.calls = @ + 1, !.visited = @ \cup {proj}]

\* computeIncluded is called: the empty-list branch finishes at once.
WalkStart(focusedProjects, downstreamHops) ==
    /\ walk.pc = "idle"
    /\ op' = [name |-> "computeIncluded", focusedProjects |-> focusedProjects,
              downstreamHops |-> downstreamHops]
    /\ IF NoFocus(focusedProjects)
       THEN /\ walk' = [walk EXCEPT !.pc = "done", !.included = allProjects,
                                    !.steps = @ + 1]
            /\ ret' = allProjects
       ELSE /\ walk' = [walk EXCEPT !.pc = "running", !.seed = 1, !.steps = @ + 1]
            /\ ret' = ret
    /\ UNCHANGED <<manifests, depMap, reverseDepMap, configFile, watchVars, ideaVars>>

\* focusedProjects.forEach body: included.add(proj); addDependents(proj, hops,
\* included, new Set()).
WalkSeed ==
    /\ walk.pc = "running"
    /\ walk.stack = <<>>
    /\ walk.seed <= Len(op.focusedProjects)
    /\ LET proj == op.focusedProjects[walk.seed]
           w == [walk EXCEPT !.included = @ \cup {proj}, !.visited = {},
                             !.seed = @ + 1, !.steps = @ + 1]
       IN  walk' = Enter(w, proj, op.downstreamHops)
    /\ UNCHANGED <<manifests, depMap, reverseDepMap, configFile, op, ret,
                   watchVars, ideaVars>>

\* One round of dependents.forEach in the innermost invocation, or its return.
WalkLoop ==
    /\ walk.pc = "running"
    /\ walk.stack # <<>>
    /\ LET n == Len(walk.stack)
           top == walk.stack[n]
           dependents == DependentsOf(top.proj)
       IN  IF top.j > Len(dependents)
           THEN walk' = [walk EXCEPT !.stack = SubSeq(@, 1, n - 1), !.steps = @ + 1]
           ELSE LET dep == dependents[top.j]
                    w == [walk EXCEPT !.stack[n].j = @ + 1, !.steps = @ + 1]
                IN  IF NotYetIncluded(dep, walk.included)
                    THEN walk' = Enter([w EXCEPT !.included = @ \cup {dep}],
                                       dep, top.hops - 1)
                    ELSE walk' = w
    /\ UNCHANGED <<manifests, depMap, reverseDepMap, configFile, op, ret,
                   watchVars, ideaVars>>

\* return included
WalkFinish ==
    /\ walk.pc = "running"
    /\ walk.stack = <<>>
    /\ walk.seed > Len(op.focusedProjects)
    /\ walk' = [walk EXCEPT !.pc = "done", !.steps = @ + 1]
    /\ ret' = walk.included
    /\ UNCHANGED <<manifests, depMap, reverseDepMap, configFile, op,
                   watchVars, ideaVars>>

\* ------------------------------------------------- specification SpecReach
\* computeIncluded as a function of its inputs: the graph of a startup build
\* over bounded manifests, then calls with bounded focused lists and hops.
SeqsUpTo(S, n) == UNION {[1..k -> S] : k \in 0..n}

\* Directive texts that name universe projects, as they are written: padded.
UniverseDirectives == {PadStart3(Decimal(i)) : i \in 1..NumProjects}

ReachManifests ==
    [allProjects -> [exists : {TRUE}, deps : SeqsUpTo(UniverseDirectives, MaxDeps)]]

FocusLists == SeqsUpTo(allProjects, MaxFocus)

InitReach ==
    /\ manifests \in ReachManifests
    /\ LET g == buildGraph(manifests)
       IN  depMap = g.depMap /\ reverseDepMap = g.reverseDepMap
    /\ configFile = AbsentFile
    /\ op = [name |-> "buildGraph"]
    /\ ret = {}
    /\ walk = IdleWalk
    /\ WatcherIdle
    /\ NoDescriptor

ComputeIncluded(focusedProjects, downstreamHops) ==
    /\ op.name = "buildGraph"
    /\ op' = [name |-> "computeIncluded", focusedProjects |-> focusedProjects,
              downstreamHops |-> downstreamHops]
    /\ ret' = computeIncluded(focusedProjects, downstreamHops)
    /\ UNCHANGED <<manifests, depMap, reverseDepMap, configFile, walk,
                   watchVars, ideaVars>>

NextReach ==
    \E f \in FocusLists, h \in 0..MaxHops : ComputeIncluded(f, h)

SpecReach == InitReach /\ [][NextReach]_vars

\* -------------------------------------------------- specification SpecWalk
\* The statement-level call over every graph of a small corner of the
\* universe, cycles and self-loops included: the first WalkProjects projects
\* have a manifest that names projects among themselves, the others have
\* none; the focused list and the hop bound are bounded by WalkFocus and
\* WalkHops.
WalkProjects == 2

WalkFocus == 1

WalkHops == 2

WalkIds == {projects[i] : i \in 1..WalkProjects}

WalkDirectives == {PadStart3(Decimal(i)) : i \in 1..WalkProjects}

WalkManifests ==
    {[p \in allProjects |->
         IF p \in WalkIds THEN [exists |-> TRUE, deps |-> d[p]]
                          ELSE [exists |-> FALSE, deps |-> <<>>]] :
        d \in [WalkIds -> SeqsUpTo(WalkDirectives, MaxDeps)]}

WalkLists == SeqsUpTo(WalkIds, WalkFocus)

InitWalk ==
    /\ manifests \in WalkManifests
    /\ LET g == buildGraph(manifests)
       IN  depMap = g.depMap /\ reverseDepMap = g.reverseDepMap
    /\ configFile = AbsentFile
    /\ op = [name |-> "buildGraph"]
    /\ ret = {}
    /\ walk = IdleWalk
    /\ WatcherIdle
    /\ NoDescriptor

NextWalk ==
    \/ \E f \in WalkLists, h \in 0..WalkHops : WalkStart(f, h)
    \/ WalkSeed
    \/ WalkLoop
    \/ WalkFinish

SpecWalk == InitWalk /\ [][NextWalk]_vars

\* ------------------------------------------------ specification SpecConfig
\* GET and POST /api/config over a focus-config.gradle that is absent, was
\* edited by hand, or was written by the server.
\* An empty file.
FileEmpty ==
    <<>>

\* A hop statement and no focused statement.
FileHopsOnly ==
    <<"e", "x", "t", ".", "d", "o", "w", "n", "s", "t", "r", "e", "a", "m",
      "H", "o", "p", "s", " ", "=", " ", "2">>

\* A focused statement and no hop statement.
FileFocusedOnly ==
    <<"e", "x", "t", ".", "f", "o", "c", "u", "s", "e", "d", "P", "r", "o",
      "j", "e", "c", "t", "s", " ", "=", " ", "[", "'", "A", "'", "]">>

\* A list literal without its closing bracket.
FileUnclosedList ==
    <<"e", "x", "t", ".", "f", "o", "c", "u", "s", "e", "d", "P", "r", "o",
      "j", "e", "c", "t", "s", " ", "=", " ", "[", "'", "A", "'", "\n", "e",
      "x", "t", ".", "d", "o", "w", "n", "s", "t", "r", "e", "a", "m", "H",
      "o", "p", "s", " ", "=", " ", "2">>

\* A hop literal that is a word.
FileWordHops ==
    <<"e", "x", "t", ".", "f", "o", "c", "u", "s", "e", "d", "P", "r", "o",
      "j", "e", "c", "t", "s", " ", "=", " ", "[", "'", "A", "'", "]", "\n",
      "e", "x", "t", ".", "d", "o", "w", "n", "s", "t", "r", "e", "a", "m",
      "H", "o", "p", "s", " ", "=", " ", "x">>

\* No blanks around '=', double and single quotes.
FileCompact ==
    <<"e", "x", "t", ".", "f", "o", "c", "u", "s", "e", "d", "P", "r", "o",
      "j", "e", "c", "t", "s", "=", "[", "\"", "A", "\"", ",", " ", "'", "C",
      "'", "]", "\n", "e", "x", "t", ".", "d", "o", "w", "n", "s", "t", "r",
      "e", "a", "m", "H", "o", "p", "s", "=", "3">>

\* A focused statement without '=' and brackets, a negative hop literal.
FileNoBracketNegative ==
    <<"e", "x", "t", ".", "f", "o", "c", "u", "s", "e", "d", "P", "r", "o",
      "j", "e", "c", "t", "s", " ", "'", "A", "'", "\n", "e", "x", "t", ".",
      "d", "o", "w", "n", "s", "t", "r", "e", "a", "m", "H", "o", "p", "s",
      " ", "=", " ", "-", "2">>

\* An empty list and hop bound 0.
FileEmptyListZero ==
    <<"e", "x", "t", ".", "f", "o", "c", "u", "s", "e", "d", "P", "r", "o",
      "j", "e", "c", "t", "s", " ", "=", " ", "[", "]", "\n", "e", "x", "t",
      ".", "d", "o", "w", "n", "s", "t", "r", "e", "a", "m", "H", "o", "p",
      "s", " ", "=", " ", "0">>

\* A hop literal with text after its digits.
FileHopsSuffix ==
    <<"e", "x", "t", ".", "f", "o", "c", "u", "s", "e", "d", "P", "r", "o",
      "j", "e", "c", "t", "s", " ", "=", " ", "[", "'", "A", "'", "]", "\n",
      "e", "x", "t", ".", "d", "o", "w", "n", "s", "t", "r", "e", "a", "m",
      "H", "o", "p", "s", " ", "=", " ", "2", "x">>

\* An unclosed list literal, and a ']' later in the file.
FileUnclosedThenBracket ==
    <<"e", "x", "t", ".", "f", "o", "c", "u", "s", "e", "d", "P", "r", "o",
      "j", "e", "c", "t", "s", " ", "=", " ", "[", "'", "A", "'", "\n", "e",
      "x", "t", ".", "d", "o", "w", "n", "s", "t", "r", "e", "a", "m", "H",
      "o", "p", "s", " ", "=", " ", "2", " ", "/", "/", " ", "]">>

InitialFiles ==
    {AbsentFile} \cup
    {[exists |-> TRUE, content |-> c] :
        c \in {FileEmpty, FileHopsOnly, FileFocusedOnly, FileUnclosedList,
               FileWordHops, FileCompact, FileNoBracketNegative,
               FileEmptyListZero, FileHopsSuffix, FileUnclosedThenBracket}}

\* Identifiers a caller may post: plain ones, and ones that carry the
\* punctuation of the file format.
IdA ==
    <<"A">>

IdC ==
    <<"C">>

IdEmpty ==
    <<>>

IdLeadingBlank ==
    <<" ", "A">>

IdQuoted ==
    <<"'", "A">>

IdComma ==
    <<"a", ",", "b">>

IdBracket ==
    <<"a", "]", "b">>

IdHopStatement ==
    <<"e", "x", "t", ".", "d", "o", "w", "n", "s", "t", "r", "e", "a", "m",
      "H", "o", "p", "s", "=", "7">>

ConfigIds ==
    {IdA, IdC, IdEmpty, IdLeadingBlank, IdQuoted, IdComma, IdBracket,
     IdHopStatement}

\* Longest focused list posted, and largest one-digit hop bound posted.
CfgFocus == 2

CfgHops == 2

ConfigLists == SeqsUpTo(ConfigIds, CfgFocus)

\* One-digit hop bounds and a two-digit one.
ConfigHops == (0..CfgHops) \cup {10 + CfgHops}

NoManifests == [p \in allProjects |-> [exists |-> FALSE, deps |-> <<>>]]

InitConfig ==
    /\ manifests = NoManifests
    /\ LET g == buildGraph(manifests)
       IN  depMap = g.depMap /\ reverseDepMap = g.reverseDepMap
    /\ configFile \in InitialFiles
    /\ op = [name |-> "start"]
    /\ ret = {}
    /\ walk = IdleWalk
    /\ WatcherIdle
    /\ NoDescriptor

\* What the file system does to fs.writeFileSync(configPath, config).
WriteOutcomes == {"ok", "openFails", "writeFails"}

\* error.message of the exception a failed step throws
FsMessage(fs) == [code |-> fs]

\* The config file after fs.writeFileSync(configPath, config): a write that
\* fails after the file was opened leaves it truncated.
WrittenConfig(file, focusedProjects, downstreamHops, fs) ==
    IF fs = "ok" THEN writeConfig(focusedProjects, downstreamHops)
    ELSE IF fs = "writeFails" THEN [exists |-> TRUE, content |-> <<>>]
    ELSE file

\* The answer to a request whose handler threw with no try around the throw:
\* the framework's final handler answers 500 with a page that shows the stack,
\* message first, unless NODE_ENV is production, where the page shows the
\* status text alone.
UncaughtInHandler(message, production) ==
    [status |-> 500,
     page |-> [shown |-> IF production THEN <<>> ELSE <<message>>]]

\* app.post('/api/config'): writeConfig(focusedProjects, downstreamHops), then
\* res.json({ success: true }); no try encloses the two statements.
PostConfig(focusedProjects, downstreamHops, fs, production) ==
    /\ op.name = "start"
    /\ configFile' = WrittenConfig(configFile, focusedProjects, downstreamHops, fs)
    /\ op' = [name |-> IF fs = "ok" THEN "writeConfig" ELSE "writeConfigThrew",
              focusedProjects |-> focusedProjects,
              downstreamHops |-> downstreamHops, before |-> configFile,
              fs |-> fs]
    /\ ret' = IF fs = "ok" THEN [success |-> TRUE]
              ELSE UncaughtInHandler(FsMessage(fs), production)
    /\ UNCHANGED <<manifests, depMap, reverseDepMap, walk, watchVars, ideaVars>>

\* app.get('/api/config'): res.json(readConfig()).
GetConfig ==
    /\ op.name \in {"start", "writeConfig", "writeConfigThrew"}
    /\ op' = [name |-> "readConfig", prev |-> op]
    /\ ret' = readConfig(configFile)
    /\ UNCHANGED <<manifests, depMap, reverseDepMap, configFile, walk,
                   watchVars, ideaVars>>

NextConfig ==
    \/ \E f \in ConfigLists, h \in ConfigHops : PostConfig(f, h, "ok", FALSE)
    \/ GetConfig

SpecConfig == InitConfig /\ [][NextConfig]_vars

\* ------------------------------------------------- specification SpecPost
\* One POST /api/config over each initial file, with a file system that may
\* refuse to open or to write the config file, in either NODE_ENV, and a GET
\* /api/config after it.
PostedConfigs ==
    {[focusedProjects |-> <<>>, downstreamHops |-> 1],
     [focusedProjects |-> <<ProjectId(1), ProjectId(2)>>, downstreamHops |-> 2]}

NextPost ==
    \/ \E c \in PostedConfigs, fs \in WriteOutcomes, production \in BOOLEAN :
           PostConfig(c.focusedProjects, c.downstreamHops, fs, production)
    \/ GetConfig

SpecPost == InitConfig /\ [][NextPost]_vars

\* ------------------------------------------------------------ ChangeWatcher
\* How many times the timer fires in one behaviour, and how many child
\* processes may be in flight at once.
MaxTicks == 2

MaxExecs == 2

\* Status codes of git status --porcelain: X for the index, Y for the working
\* tree. A change that is not staged has a blank X.
Modified == <<" ", "M">>

Staged == <<"M", " ">>

PathB == ProjectId(2) \o <<"/", "b">>

PathLookalike == ProjectId(1) \o <<"x", "/", "c">>

PathNotes == <<"n", "o", "t", "e", "s">>

\* The paths the working tree can hold, in the byte order git lists them in.
WatchPaths == <<PathNotes, PathLookalike, PathB>>

WatchPathSet == Elems(WatchPaths)

\* The dirty paths of a working tree, as git knows them.
DirtyPaths(tree) == {p \in DOMAIN tree : tree[p] # Clean}

\* stdout of git status --porcelain: a line "XY path\n" per dirty path.
RECURSIVE StatusLines(_, _)
StatusLines(tree, i) ==
    IF i > Len(WatchPaths) THEN <<>>
    ELSE LET path == WatchPaths[i]
         IN  (IF tree[path] = Clean THEN <<>>
              ELSE tree[path] \o <<" ">> \o path \o <<"\n">>)
                 \o StatusLines(tree, i + 1)

StatusOutput(tree) == StatusLines(tree, 1)

\* s.split('\n')
RECURSIVE SplitLines(_)
SplitLines(s) ==
    LET breaks == {i \in 1..Len(s) : s[i] = "\n"}
    IN  IF breaks = {} THEN <<s>>
        ELSE <<SubSeq(s, 1, Min(breaks) - 1)>>
                 \o SplitLines(SubSeq(s, Min(breaks) + 1, Len(s)))

\* s.substring(from, to) with 0-based bounds, clamped to the text.
Substring(s, from, to) ==
    LET a == IF from > Len(s) THEN Len(s) ELSE from
        b == IF to > Len(s) THEN Len(s) ELSE to
    IN  SubSeq(s, a + 1, b)

\* const lines = stdout.trim().split('\n').filter(line => line.trim())
StatusEntries(stdout) ==
    SelectSeq(SplitLines(Trim(stdout)), LAMBDA line : Len(Trim(line)) > 0)

\* lines.forEach: status = line.substring(0, 2), filePath = line.substring(3);
\* the path is tracked when status.trim() is not empty.
CurrentChanges(stdout) ==
    LET lines == StatusEntries(stdout)
    IN  {Substring(lines[i], 3, Len(lines[i])) :
            i \in {k \in 1..Len(lines) : Len(Trim(Substring(lines[k], 0, 2))) > 0}}

\* [...currentChanges].filter(change => !lastKnownChanges.has(change))
NewChanges(currentChanges, last) == currentChanges \ last

\* change.match(/^project-\d+/)
ProjectOf(change) ==
    LET d == Len(ProjectPrefix) + 1
    IN  IF StartsAt(change, 1, ProjectPrefix) /\ d <= Len(change) /\ change[d] \in Digits
        THEN [found |-> TRUE, group |-> SubSeq(change, 1, RunEnd(change, d, Digits) - 1)]
        ELSE NoMatch

\* newChanges.forEach(change => { if (match) changedProjects.add(match[0]) })
ChangedProjects(newChanges) ==
    {ProjectOf(change).group : change \in {c \in newChanges : ProjectOf(c).found}}

\* [...changedProjects].filter(proj => !config.focusedProjects.includes(proj))
NonFocusedChanged(changedProjects, config) ==
    {proj \in changedProjects : proj \notin Elems(config.focusedProjects)}

\* Mutant: excluded is the universe minus the changed projects.
MutExcludeUnchanged(nonFocusedChanged, included) ==
    [changedProjects |-> nonFocusedChanged,
     included |-> included,
     excluded |-> {q \in allProjects : q \notin nonFocusedChanged}]

\* The payload of io.emit('file-changes', ...)
FileChanges(nonFocusedChanged, included) ==
    [changedProjects |-> nonFocusedChanged,
     included |-> included,
     excluded |-> {q \in allProjects : q \notin included}]

\* Mutant: a failed query wipes the snapshot.
MutForgetOnError(last) ==
    [lastKnownChanges |-> {}, currentChanges |-> {}, newChanges |-> {},
     loaded |-> <<>>, emitted |-> <<>>, returned |-> TRUE]

\* if (error) { console.error(...); return; }: the callback returns normally,
\* nothing is thrown into the event loop.
OnError(last) ==
    [lastKnownChanges |-> last, currentChanges |-> {}, newChanges |-> {},
     loaded |-> <<>>, emitted |-> <<>>, returned |-> TRUE]

\* Mutant: the snapshot is replaced only when a notification went out.
MutSnapshotOnEmit(currentChanges, last, emitted) ==
    IF Len(emitted) > 0 THEN currentChanges ELSE last

\* lastKnownChanges = currentChanges, the last statement of the callback
NextSnapshot(currentChanges, last, emitted) == currentChanges

\* The exec callback on a query that succeeded. loaded holds the config when
\* the callback read it, emitted the notifications it sent.
OnStatus(stdout, last, file) ==
    LET currentChanges == CurrentChanges(stdout)
        newChanges == NewChanges(currentChanges, last)
        config == readConfig(file)
        included == computeIncluded(config.focusedProjects, config.downstreamHops)
        nonFocusedChanged == NonFocusedChanged(ChangedProjects(newChanges), config)
        emitted == IF newChanges # {} /\ nonFocusedChanged # {}
                   THEN <<FileChanges(nonFocusedChanged, included)>>
                   ELSE <<>>
    IN  [lastKnownChanges |-> NextSnapshot(currentChanges, last, emitted),
         currentChanges |-> currentChanges,
         newChanges |-> newChanges,
         loaded |-> IF newChanges # {} THEN <<config>> ELSE <<>>,
         emitted |-> emitted,
         returned |-> TRUE]

\* setInterval(checkGitChanges, 5000) fires: exec('git status --porcelain')
\* starts a child process and returns at once, whatever is still in flight.
Tick ==
    /\ polling
    /\ ticks < MaxTicks
    /\ Len(execs) < MaxExecs
    /\ ticks' = ticks + 1
    /\ execs' = Append(execs, ticks + 1)
    /\ UNCHANGED <<manifests, depMap, reverseDepMap, configFile, op, ret, walk,
                   worktree, polling, lastKnownChanges, handled, ideaVars>>

RemoveAt(q, i) == SubSeq(q, 1, i - 1) \o SubSeq(q, i + 1, Len(q))

\* The dirty paths git reported in the last query that succeeded, up to the
\* most recent callback.
ReportedDirty == IF handled = <<>> THEN {} ELSE handled[1].dirty

\* The query whose output lastKnownChanges holds, by the tick that started it;
\* 0 while the snapshot is the one the server started with.
HeldQuery == IF handled = <<>> THEN 0 ELSE handled[1].held

\* A child process reads the working tree and exits, with its output or with
\* an error, and its callback runs: (error, stdout, stderr) => ...
Callback(i, fails) ==
    /\ i \in 1..Len(execs)
    /\ \E r \in {IF fails THEN OnError(lastKnownChanges)
                  ELSE OnStatus(StatusOutput(worktree), lastKnownChanges,
                                configFile)} :
           /\ lastKnownChanges' = r.lastKnownChanges
           /\ handled' = <<[id |-> execs[i], error |-> fails, tree |-> worktree,
                            before |-> lastKnownChanges,
                            prevHeld |-> HeldQuery,
                            held |-> IF fails THEN HeldQuery ELSE execs[i],
                            prevDirty |-> ReportedDirty,
                            dirty |-> IF fails THEN ReportedDirty
                                      ELSE DirtyPaths(worktree),
                            currentChanges |-> r.currentChanges,
                            newChanges |-> r.newChanges,
                            loaded |-> r.loaded,
                            emitted |-> r.emitted]>>
           /\ ret' = r.emitted
           /\ polling' = r.returned
    /\ op' = [name |-> "checkGitChanges"]
    /\ execs' = RemoveAt(execs, i)
    /\ UNCHANGED <<manifests, depMap, reverseDepMap, configFile, walk,
                   worktree, ticks, ideaVars>>

\* A file of the working tree is edited, staged or restored.
Edit(path, status) ==
    /\ worktree[path] # status
    /\ worktree' = [worktree EXCEPT ![path] = status]
    /\ UNCHANGED <<manifests, depMap, reverseDepMap, configFile, op, ret, walk,
                   polling, ticks, execs, lastKnownChanges, handled, ideaVars>>

\* Mutant: saving the config rebuilds the maps from the manifests.
MutSaveRebuilds(focusedProjects, downstreamHops) ==
    /\ configFile # writeConfig(focusedProjects, downstreamHops)
    /\ configFile' = writeConfig(focusedProjects, downstreamHops)
    /\ \E g \in {buildGraph(manifests)} :
           depMap' = g.depMap /\ reverseDepMap' = g.reverseDepMap
    /\ UNCHANGED <<manifests, op, ret, walk, watchVars, ideaVars>>

\* app.post('/api/config') while the watcher runs: the file is replaced
\* between two callbacks.
SaveConfig(focusedProjects, downstreamHops) ==
    /\ configFile # writeConfig(focusedProjects, downstreamHops)
    /\ configFile' = writeConfig(focusedProjects, downstreamHops)
    /\ UNCHANGED <<manifests, depMap, reverseDepMap, op, ret, walk,
                   watchVars, ideaVars>>

\* ------------------------------------------------- specification SpecWatch
\* The watcher over a working tree that changes under it, while the config is
\* saved now and then; project-002 depends on project-001.
WatchManifests ==
    [p \in allProjects |->
        IF p = ProjectId(2) THEN [exists |-> TRUE, deps |-> <<<<"0", "0", "1">>>>]
                            ELSE [exists |-> TRUE, deps |-> <<>>]]

\* The configs that are saved while the watcher runs.
WatchSaves ==
    {[focusedProjects |-> <<ProjectId(1)>>, downstreamHops |-> 1],
     [focusedProjects |-> <<ProjectId(2)>>, downstreamHops |-> 0]}

\* The status codes each path takes while it is dirty.
WatchCodes ==
    [p \in WatchPathSet |-> IF p = PathB THEN {Modified} ELSE {Staged}]

InitWatch ==
    /\ manifests = WatchManifests
    /\ LET g == buildGraph(manifests)
       IN  depMap = g.depMap /\ reverseDepMap = g.reverseDepMap
    /\ configFile = AbsentFile
    /\ op = [name |-> "buildGraph"]
    /\ ret = <<>>
    /\ walk = IdleWalk
    /\ worktree = [p \in WatchPathSet |-> Clean]
    /\ polling = TRUE
    /\ ticks = 0
    /\ execs = <<>>
    /\ lastKnownChanges = {}
    /\ handled = <<>>
    /\ NoDescriptor

NextWatch ==
    \/ Tick
    \/ \E i \in 1..MaxExecs, fails \in BOOLEAN : Callback(i, fails)
    \/ \E path \in WatchPathSet :
           \E status \in WatchCodes[path] \cup {Clean} : Edit(path, status)
    \/ \E c \in WatchSaves : SaveConfig(c.focusedProjects, c.downstreamHops)

SpecWatch == InitWatch /\ [][NextWatch]_vars

\* ------------------------------------------------- specification SpecGraph
\* buildGraph at startup and on GET /api/graph, over manifests that are edited
\* between builds. The first two projects have a manifest that may be missing
\* or hold up to GraphDeps directives; project-003 has one without directive,
\* the others have none.
GraphDeps == 2

\* Directive numbers as written in a manifest: unpadded, and past the registry.
GraphDirectives == {<<"1">>, <<"1", "0", "1">>}

GraphIds == {ProjectId(1), ProjectId(2)}

GraphFiles ==
    {[exists |-> FALSE, deps |-> <<>>]}
        \cup [exists : {TRUE}, deps : SeqsUpTo(GraphDirectives, GraphDeps)]

GraphManifests ==
    {[p \in allProjects |->
         IF p \in GraphIds THEN f[p]
         ELSE IF p = ProjectId(3) THEN [exists |-> TRUE, deps |-> <<>>]
         ELSE [exists |-> FALSE, deps |-> <<>>]] :
        f \in [GraphIds -> GraphFiles]}

InitGraph ==
    /\ manifests \in GraphManifests
    /\ LET g == buildGraph(manifests)
       IN  /\ depMap = g.depMap
           /\ reverseDepMap = g.reverseDepMap
           /\ ret = GraphOf(g)
    /\ configFile = AbsentFile
    /\ op = [name |-> "buildGraph",
             before |-> [depMap |-> EmptyMap, reverseDepMap |-> EmptyMap]]
    /\ walk = IdleWalk
    /\ WatcherIdle
    /\ NoDescriptor

\* A build.gradle is written, emptied or deleted.
EditManifest(proj, file) ==
    /\ manifests[proj] # file
    /\ manifests' = [manifests EXCEPT ![proj] = file]
    /\ op' = [name |-> "editManifest"]
    /\ UNCHANGED <<depMap, reverseDepMap, configFile, ret, walk, watchVars, ideaVars>>

\* app.get('/api/graph'): const graph = buildGraph(); res.json(graph).
GetGraph ==
    /\ LET g == BuildFrom(manifests, 1,
                     ResetMaps([depMap |-> depMap, reverseDepMap |-> reverseDepMap]))
       IN  /\ depMap' = g.depMap
           /\ reverseDepMap' = g.reverseDepMap
           /\ ret' = GraphOf(g)
    /\ op' = [name |-> "buildGraph",
              before |-> [depMap |-> depMap, reverseDepMap |-> reverseDepMap]]
    /\ UNCHANGED <<manifests, configFile, walk, watchVars, ideaVars>>

NextGraph ==
    \/ \E proj \in GraphIds, file \in GraphFiles : EditManifest(proj, file)
    \/ GetGraph

SpecGraph == InitGraph /\ [][NextGraph]_vars

\* ----------------------------------------------------------------- applyIdea
\* Mutant: the filter keeps the included projects.
MutInvertedFilter(included) == SelectSeq(projects, LAMBDA q : q \in included)

\* const excluded = allProjects.filter(p => !included.has(p))
ExcludedOf(included) == SelectSeq(projects, LAMBDA q : q \notin included)

\* The literal parts of an exclusion entry, each a single piece of text.
ExcludeOpen == "<excludeFolder url=\"file://$MODULE_DIR$/../../"

ExcludeClose == "\" />"

\* `<excludeFolder url="file://$MODULE_DIR$/../../${p}" />`
ExcludeEntry(proj) == <<ExcludeOpen>> \o proj \o <<ExcludeClose>>

\* excluded.map(...).join('\n')
RECURSIVE JoinLines(_, _)
JoinLines(entries, i) ==
    IF i > Len(entries) THEN <<>>
    ELSE (IF i > 1 THEN <<"\n">> ELSE <<>>) \o entries[i] \o JoinLines(entries, i + 1)

\* imlContent: the template around excludeXml; literal parts are single pieces.
ImlContent(excluded) ==
    <<"<?xml version=\"1.0\" encoding=\"UTF-8\"?>", "\n",
      "<module type=\"JAVA_MODULE\" version=\"4\">", "\n",
      "  <component name=\"AdditionalModuleElements\">", "\n",
      "    <content url=\"file://$MODULE_DIR$/../..\" dumb=\"true\">", "\n">>
        \o JoinLines([i \in 1..Len(excluded) |-> ExcludeEntry(excluded[i])], 1)
        \o <<"\n", "    </content>", "\n", "  </component>", "\n", "</module>">>

\* What the file system does to the two writes of one request.
FsOutcomes == {"ok", "mkdirFails", "openFails", "writeFails"}

\* The step of one request that throws, given what the file system does: the
\* directory is created only when it does not exist.
Thrown(fs, dirExists) ==
    IF fs = "mkdirFails" THEN ~dirExists ELSE fs # "ok"

\* app.post('/api/applyIdea'): everything inside try, the catch answers 500.
\* A write that fails after the file was opened leaves it truncated.
ApplyIdea(fs) ==
    /\ LET config == readConfig(configFile)
           included == computeIncluded(config.focusedProjects, config.downstreamHops)
           excluded == ExcludedOf(included)
           thrown == Thrown(fs, imlDir)
       IN  /\ imlDir' = (imlDir \/ fs # "mkdirFails")
           /\ imlFile' = IF ~thrown
                         THEN [exists |-> TRUE, content |-> ImlContent(excluded)]
                         ELSE IF fs = "writeFails"
                         THEN [exists |-> TRUE, content |-> <<>>]
                         ELSE imlFile
           /\ ret' = IF ~thrown
                     THEN [status |-> 200, body |-> [success |-> TRUE]]
                     ELSE [status |-> 500, body |-> [error |-> FsMessage(fs)]]
    /\ op' = [name |-> "applyIdea", fs |-> fs, file |-> configFile, dir |-> imlDir]
    /\ UNCHANGED <<manifests, depMap, reverseDepMap, configFile, walk, watchVars>>

\* ------------------------------------------------- specification SpecIdea
\* applyIdea between config saves, with a file system that may refuse to
\* create the directory or to write the file; either no project has a
\* manifest or project-002 depends on project-001.
IdeaManifests == {NoManifests, WatchManifests}

IdeaSaves ==
    {[focusedProjects |-> <<>>, downstreamHops |-> 1],
     [focusedProjects |-> <<ProjectId(1)>>, downstreamHops |-> 1],
     [focusedProjects |-> <<ProjectId(2)>>, downstreamHops |-> 0],
     [focusedProjects |-> <<ProjectId(2), ProjectId(1)>>, downstreamHops |-> 2]}

InitIdea ==
    /\ manifests \in IdeaManifests
    /\ LET g == buildGraph(manifests)
       IN  depMap = g.depMap /\ reverseDepMap = g.reverseDepMap
    /\ configFile = AbsentFile
    /\ op = [name |-> "buildGraph"]
    /\ ret = {}
    /\ walk = IdleWalk
    /\ WatcherIdle
    /\ NoDescriptor

NextIdea ==
    \/ \E fs \in FsOutcomes : ApplyIdea(fs)
    \/ \E c \in IdeaSaves : SaveConfig(c.focusedProjects, c.downstreamHops)

SpecIdea == InitIdea /\ [][NextIdea]_vars

\* ----------------------------------------------- specification SpecServer
\* The whole server: the graph is rebuilt on GET /api/graph while the manifest
\* of project-002 gains and loses its dependency on project-001, configs are
\* saved, applyIdea is called and the watcher polls a working tree in which
\* project-001x/c is staged and restored.
InitServer ==
    /\ manifests = WatchManifests
    /\ LET g == buildGraph(manifests)
       IN  /\ depMap = g.depMap
           /\ reverseDepMap = g.reverseDepMap
           /\ ret = GraphOf(g)
    /\ configFile = AbsentFile
    /\ op = [name |-> "buildGraph",
             before |-> [depMap |-> EmptyMap, reverseDepMap |-> EmptyMap]]
    /\ walk = IdleWalk
    /\ worktree = [p \in WatchPathSet |-> Clean]
    /\ polling = TRUE
    /\ ticks = 0
    /\ execs = <<>>
    /\ lastKnownChanges = {}
    /\ handled = <<>>
    /\ NoDescriptor

NextServer ==
    \/ GetGraph
    \/ \E deps \in {<<>>, <<<<"0", "0", "1">>>>} :
           EditManifest(ProjectId(2), [exists |-> TRUE, deps |-> deps])
    \/ SaveConfig(<<ProjectId(1)>>, 1)
    \/ \E fs \in {"ok", "openFails"} : ApplyIdea(fs)
    \/ Tick
    \/ \E i \in 1..MaxExecs, fails \in BOOLEAN : Callback(i, fails)
    \/ \E status \in {Staged, Clean} : Edit(PathLookalike, status)

SpecServer == InitServer /\ [][NextServer]_vars

\* ------------------------------------------------------------------ client
\* new Set(list): the members in the order of their first occurrence.
RECURSIVE SetOf(_)
SetOf(list) ==
    IF list = <<>> THEN <<>>
    ELSE LET front == SetOf(SubSeq(list, 1, Len(list) - 1))
             last == list[Len(list)]
         IN  IF last \in Elems(front) THEN front ELSE Append(front, last)

\* dependentsMap: every node starts with an empty list, then every edge
\* from -> to appends from to the list of to, creating it when absent.
RECURSIVE DependentsFromEdges(_, _, _)
DependentsFromEdges(edges, i, map) ==
    IF i > Len(edges) THEN map
    ELSE DependentsFromEdges(edges, i + 1,
             Put(map, edges[i].to, Append(Lookup(map, edges[i].to), edges[i].from)))

dependentsMap(graphData) ==
    DependentsFromEdges(graphData.edges, 1,
        [id \in {graphData.nodes[i].id : i \in 1..Len(graphData.nodes)} |-> <<>>])

\* addDependents of includedProjects: visited holds the keys `${proj}-${hops}`,
\* and the project is added before its dependents are walked with hops - 1.
RECURSIVE addDependents_client(_, _, _, _, _), ClientLoop(_, _, _, _, _, _)
addDependents_client(map, proj, hops, included, visited) ==
    IF hops < 0 \/ <<proj, hops>> \in visited
    THEN [included |-> included, visited |-> visited]
    ELSE ClientLoop(map, Lookup(map, proj), 1, hops,
                    included \cup {proj}, visited \cup {<<proj, hops>>})

ClientLoop(map, deps, j, hops, included, visited) ==
    IF j > Len(deps) THEN [included |-> included, visited |-> visited]
    ELSE LET r == addDependents_client(map, deps[j], hops - 1, included, visited)
         IN  ClientLoop(map, deps, j + 1, hops, r.included, r.visited)

\* focusedProjects.forEach(proj => { included.add(proj); addDependents(proj,
\* downstreamHops) }), included and visited shared by all seeds.
RECURSIVE ClientSeeds(_, _, _, _, _, _)
ClientSeeds(map, focused, i, hops, included, visited) ==
    IF i > Len(focused) THEN included
    ELSE LET r == addDependents_client(map, focused[i], hops,
                                       included \cup {focused[i]}, visited)
         IN  ClientSeeds(map, focused, i + 1, hops, r.included, r.visited)

\* includedProjects: every node when nothing is focused, the walk otherwise.
includedProjects(graphData, focusedProjects, downstreamHops) ==
    IF Len(focusedProjects) = 0
    THEN {graphData.nodes[i].id : i \in 1..Len(graphData.nodes)}
    ELSE ClientSeeds(dependentsMap(graphData), focusedProjects, 1,
                     downstreamHops, {}, {})

\* ----------------------------------------------- specification SpecClient
\* The client loads the graph and the config from the server and derives the
\* included set it displays. No project has a manifest, or project-002 depends
\* on project-001, or the first four projects form a chain of dependents.
ChainManifests ==
    [p \in allProjects |->
        IF p = ProjectId(2) THEN [exists |-> TRUE, deps |-> <<<<"0", "0", "1">>>>]
        ELSE IF p = ProjectId(3) THEN [exists |-> TRUE, deps |-> <<<<"2">>>>]
        ELSE IF p = ProjectId(4) THEN [exists |-> TRUE, deps |-> <<<<"0", "3">>>>]
        ELSE [exists |-> TRUE, deps |-> <<>>]]

ClientManifests == IdeaManifests \cup {ChainManifests}

InitClient ==
    /\ manifests \in ClientManifests
    /\ LET g == buildGraph(manifests)
       IN  depMap = g.depMap /\ reverseDepMap = g.reverseDepMap
    /\ configFile = AbsentFile
    /\ op = [name |-> "buildGraph"]
    /\ ret = {}
    /\ walk = IdleWalk
    /\ WatcherIdle
    /\ NoDescriptor

\* load(): the config and the graph are fetched, the focused list becomes a
\* Set, and includedProjects is derived; the server computes its own included
\* set from the same config over the maps of that build.
LoadClient(focusedProjects, downstreamHops) ==
    /\ op.name = "buildGraph"
    /\ op' = [name |-> "load", focusedProjects |-> focusedProjects,
              downstreamHops |-> downstreamHops]
    /\ \E graph \in {GraphOf(BuildFrom(manifests, 1,
                          ResetMaps([depMap |-> depMap,
                                     reverseDepMap |-> reverseDepMap])))} :
           ret' = [graph |-> graph,
                   client |-> includedProjects(graph, SetOf(focusedProjects),
                                               downstreamHops),
                   server |-> computeIncluded(focusedProjects, downstreamHops)]
    /\ UNCHANGED <<manifests, depMap, reverseDepMap, configFile, walk,
                   watchVars, ideaVars>>

NextClient ==
    \E f \in FocusLists, h \in 0..MaxHops : LoadClient(f, h)

SpecClient == InitClient /\ [][NextClient]_vars

\* --------------------------------------------- specification SpecVariants
\* The two servers started over the same manifests and asked for the included
\* set of the same focused list and hop bound.
InitVariants ==
    /\ manifests \in IdeaManifests
    /\ LET g == buildGraph(manifests)
       IN  depMap = g.depMap /\ reverseDepMap = g.reverseDepMap
    /\ configFile = AbsentFile
    /\ op = [name |-> "buildGraph"]
    /\ ret = {}
    /\ walk = IdleWalk
    /\ WatcherIdle
    /\ NoDescriptor

\* computeIncluded(focusedProjects, downstreamHops) in each server, and the
\* excluded list applyIdea filters from it.
ComputeInBoth(focusedProjects, downstreamHops) ==
    /\ op.name = "buildGraph"
    /\ op' = [name |-> "computeIncludedInBoth", focusedProjects |-> focusedProjects,
              downstreamHops |-> downstreamHops]
    /\ \E watcher \in {computeIncluded(focusedProjects, downstreamHops)},
          ui \in {computeIncluded_focusUi(focusedProjects, downstreamHops)} :
           ret' = [watcher |-> [included |-> watcher, excluded |-> ExcludedOf(watcher)],
                   focusUi |-> [included |-> ui, excluded |-> ExcludedOf(ui)]]
    /\ UNCHANGED <<manifests, depMap, reverseDepMap, configFile, walk,
                   watchVars, ideaVars>>

NextVariants ==
    \E f \in FocusLists, h \in 0..MaxHops : ComputeInBoth(f, h)

SpecVariants == InitVariants /\ [][NextVariants]_vars

\* ------------------------------------------------ claims on computeIncluded
\* The reference reading of "reachable within h hops": h rounds of adding the
\* dependents (reverse-adjacency members) of everything reached so far.
RECURSIVE ReachWithin(_, _)
ReachWithin(S, h) ==
    IF h = 0 THEN S
    ELSE ReachWithin(S \cup UNION {Elems(Lookup(reverseDepMap, p)) : p \in S}, h - 1)

\* A call of computeIncluded has returned: op holds its arguments, ret its result.
Called == op.name = "computeIncluded" /\ walk.pc # "running"

CalledFocused == Called /\ Len(op.focusedProjects) > 0

Reverse(s) == [i \in 1..Len(s) |-> s[Len(s) + 1 - i]]

\* C1: for a non-empty focused list F and hop bound h, computeIncluded(F, h)
\* contains every project reachable from a project of F by at most h
\* reverse-adjacency edges.
C1_ReachableIncluded ==
    CalledFocused =>
        ReachWithin(Elems(op.focusedProjects), op.downstreamHops) \subseteq ret

\* C2: computeIncluded(F, h) is a subset of computeIncluded(F, h + 1).
C2_MonotoneInHops ==
    Called => ret \subseteq computeIncluded(op.focusedProjects, op.downstreamHops + 1)

\* C3: with hop bound 0 and a non-empty focused list the result is exactly the
\* set of focused projects; no dependent is added.
C3_ZeroHopsIsFocus ==
    (CalledFocused /\ op.downstreamHops = 0) => ret = Elems(op.focusedProjects)

\* C3 witness: a zero-hop call whose focused project has a dependent outside
\* the focused list, which the call left out.
C3_Witness ==
    /\ CalledFocused
    /\ op.downstreamHops = 0
    /\ \E p \in Elems(op.focusedProjects) :
           \E d \in Elems(Lookup(reverseDepMap, p)) :
               d \notin Elems(op.focusedProjects) /\ d \notin ret

\* C4: with an empty focused list the result is the whole project universe
\* project-001 .. project-<NumProjects>, whatever the graph and hop bound.
C4_EmptyFocusIsUniverse ==
    (Called /\ Len(op.focusedProjects) = 0) =>
        /\ ret = {ProjectPrefix \o PadStart3(Decimal(i)) : i \in 1..NumProjects}
        /\ Cardinality(ret) = NumProjects
        /\ <<"p", "r", "o", "j", "e", "c", "t", "-", "0", "0", "1">> \in ret

\* C4 witness: an empty-focus call over a graph that has edges.
C4_Witness ==
    /\ Called
    /\ Len(op.focusedProjects) = 0
    /\ op.downstreamHops > 0
    /\ DOMAIN reverseDepMap # {}
    /\ Cardinality(ret) = NumProjects

\* C5: the result for a focused list is the union of the results for each
\* focused project alone, so reordering the list keeps the membership.
C5_UnionOfSeeds ==
    CalledFocused =>
        /\ ret = UNION {computeIncluded(<<op.focusedProjects[i]>>, op.downstreamHops) :
                           i \in 1..Len(op.focusedProjects)}
        /\ ret = computeIncluded(Reverse(op.focusedProjects), op.downstreamHops)

\* C6: for a non-empty focused list every project of the result is focused or
\* reachable from a focused project by at most h reverse-adjacency edges; a
\* project that is only a dependency of a focused project is not added.
C6_OnlyDependents ==
    CalledFocused =>
        /\ ret \subseteq ReachWithin(Elems(op.focusedProjects), op.downstreamHops)
        /\ \A f \in Elems(op.focusedProjects) :
               \A d \in Elems(Lookup(depMap, f)) :
                   d \notin ReachWithin(Elems(op.focusedProjects), op.downstreamHops)
                       => d \notin ret

\* C6 witness: a call with hops to spend that left out a project which a
\* focused project depends on.
C6_Witness ==
    /\ CalledFocused
    /\ op.downstreamHops > 0
    /\ \E f \in Elems(op.focusedProjects) :
           \E d \in Elems(Lookup(depMap, f)) : d \notin ret

\* ---------------------------------------------------- claims on ConfigStore
PostedThenRead == op.name = "readConfig" /\ op.prev.name = "writeConfig"

\* An identifier the file format can carry: not empty, free of the list
\* separator and the closing bracket, and not itself a hop statement.
NonDegenerate(id) ==
    /\ Len(id) > 0
    /\ \A i \in 1..Len(id) : id[i] \notin {",", "]"}
    /\ ~HopsMatch(id).found

\* C8: for a config whose identifiers are non-degenerate and whose hop bound is a
\* non-negative integer, readConfig after writeConfig(cfg) returns the same set
\* of focused projects and the same downstreamHops.
C8_RoundTrip ==
    (/\ PostedThenRead
     /\ \A i \in 1..Len(op.prev.focusedProjects) :
            NonDegenerate(op.prev.focusedProjects[i]))
        => /\ Elems(ret.focusedProjects) = Elems(op.prev.focusedProjects)
           /\ ret.downstreamHops = op.prev.downstreamHops

\* C8 witness: two different non-degenerate identifiers, one of them with a
\* leading blank or quote, and a two-digit hop bound, written over an existing
\* file and read back.
C8_Witness ==
    /\ PostedThenRead
    /\ op.prev.before.exists
    /\ Len(op.prev.focusedProjects) = 2
    /\ op.prev.focusedProjects[1] # op.prev.focusedProjects[2]
    /\ \A i \in 1..2 : NonDegenerate(op.prev.focusedProjects[i])
    /\ \E i \in 1..2 : op.prev.focusedProjects[i] \in {IdLeadingBlank, IdQuoted}
    /\ op.prev.downstreamHops > 9
    /\ Elems(ret.focusedProjects) = Elems(op.prev.focusedProjects)

\* The file format of the specification, written out: members single-quoted,
\* joined by a comma and a blank, in the caller's order.
RECURSIVE QuotedMembers(_)
QuotedMembers(f) ==
    IF Len(f) = 0 THEN <<>>
    ELSE IF Len(f) = 1 THEN <<"'">> \o f[1] \o <<"'">>
    ELSE QuotedMembers(SubSeq(f, 1, Len(f) - 1))
             \o <<",", " ", "'">> \o f[Len(f)] \o <<"'">>

HopDigits(h) ==
    IF h < 10 THEN <<DigitChars[h + 1]>>
    ELSE <<DigitChars[(h \div 10) + 1], DigitChars[(h % 10) + 1]>>

FirstStatement ==
    <<"e", "x", "t", ".", "f", "o", "c", "u", "s", "e", "d", "P", "r", "o",
      "j", "e", "c", "t", "s", " ", "=", " ", "[">>

SecondStatement ==
    <<"e", "x", "t", ".", "d", "o", "w", "n", "s", "t", "r", "e", "a", "m",
      "H", "o", "p", "s", " ", "=", " ">>

\* save({focusedProjects: ["A", "C"], downstreamHops: 2}) of the specification.
SavedExample ==
    <<"e", "x", "t", ".", "f", "o", "c", "u", "s", "e", "d", "P", "r", "o",
      "j", "e", "c", "t", "s", " ", "=", " ", "[", "'", "A", "'", ",", " ",
      "'", "C", "'", "]", "\n", "e", "x", "t", ".", "d", "o", "w", "n", "s",
      "t", "r", "e", "a", "m", "H", "o", "p", "s", " ", "=", " ", "2">>

\* C9: writeConfig replaces the whole file with exactly two statements in fixed
\* order: 'ext.focusedProjects = [', the members in caller order, each
\* single-quoted and separated by ', ', then ']', a newline and
\* 'ext.downstreamHops = <hops>'; nothing of the previous content remains.
C9_FileIsTwoStatements ==
    op.name = "writeConfig" =>
        /\ configFile.exists
        /\ configFile.content =
               FirstStatement \o QuotedMembers(op.focusedProjects) \o <<"]", "\n">>
                   \o SecondStatement \o HopDigits(op.downstreamHops)
        /\ (op.focusedProjects = <<IdA, IdC>> /\ op.downstreamHops = 2)
               => configFile.content = SavedExample

\* C9 witness: a two-member write over an existing, longer file.
C9_Witness ==
    /\ op.name = "writeConfig"
    /\ op.before.exists
    /\ Len(op.before.content) > Len(configFile.content)
    /\ Len(op.focusedProjects) = 2
    /\ op.downstreamHops > 0

\* The one member the unclosed list followed by a later bracket reads as.
GarbledMember ==
    <<"A", "'", "\n", "e", "x", "t", ".", "d", "o", "w", "n", "s", "t", "r",
      "e", "a", "m", "H", "o", "p", "s", " ", "=", " ", "2", " ", "/", "/">>

\* What each initial file holds, statement by statement: "ok" (a literal of the
\* expected shape), "missing" (no statement), "unmatched" (a malformed literal
\* that the pattern cannot match) or "prefix" (a malformed literal whose
\* leading part the pattern matches); and what a well-formed or prefix literal
\* reads as.
ConfigCases ==
    {[file |-> AbsentFile, focused |-> "missing", hops |-> "missing",
      expectF |-> <<>>, expectH |-> 1],
     [file |-> [exists |-> TRUE, content |-> FileEmpty],
      focused |-> "missing", hops |-> "missing", expectF |-> <<>>, expectH |-> 1],
     [file |-> [exists |-> TRUE, content |-> FileHopsOnly],
      focused |-> "missing", hops |-> "ok", expectF |-> <<>>, expectH |-> 2],
     [file |-> [exists |-> TRUE, content |-> FileFocusedOnly],
      focused |-> "ok", hops |-> "missing", expectF |-> <<IdA>>, expectH |-> 1],
     [file |-> [exists |-> TRUE, content |-> FileUnclosedList],
      focused |-> "unmatched", hops |-> "ok", expectF |-> <<>>, expectH |-> 2],
     [file |-> [exists |-> TRUE, content |-> FileWordHops],
      focused |-> "ok", hops |-> "unmatched", expectF |-> <<IdA>>, expectH |-> 1],
     [file |-> [exists |-> TRUE, content |-> FileCompact],
      focused |-> "ok", hops |-> "ok", expectF |-> <<IdA, IdC>>, expectH |-> 3],
     [file |-> [exists |-> TRUE, content |-> FileNoBracketNegative],
      focused |-> "unmatched", hops |-> "unmatched",
      expectF |-> <<>>, expectH |-> 1],
     [file |-> [exists |-> TRUE, content |-> FileEmptyListZero],
      focused |-> "ok", hops |-> "ok", expectF |-> <<>>, expectH |-> 0],
     [file |-> [exists |-> TRUE, content |-> FileHopsSuffix],
      focused |-> "ok", hops |-> "prefix", expectF |-> <<IdA>>, expectH |-> 2],
     [file |-> [exists |-> TRUE, content |-> FileUnclosedThenBracket],
      focused |-> "prefix", hops |-> "ok",
      expectF |-> <<GarbledMember>>, expectH |-> 2]}

ReadInitialFile == op.name = "readConfig" /\ op.prev.name = "start"

DefaultsApply(malformed) ==
    ReadInitialFile =>
        \A c \in ConfigCases :
            c.file = configFile =>
                /\ ret.downstreamHops \in Nat
                /\ ~c.file.exists =>
                       ret = [focusedProjects |-> <<>>, downstreamHops |-> 1]
                /\ IF c.focused \in {"missing"} \cup malformed
                   THEN ret.focusedProjects = <<>>
                   ELSE ret.focusedProjects = c.expectF
                /\ IF c.hops \in {"missing"} \cup malformed
                   THEN ret.downstreamHops = 1
                   ELSE ret.downstreamHops = c.expectH

Built == op.name = "buildGraph"

\* How often x occurs in the list s.
Count(x, s) == Cardinality({i \in 1..Len(s) : s[i] = x})

\* Every identifier that names a node of the maps: keys and members.
Mentioned(m) == (DOMAIN m) \cup UNION {Elems(m[k]) : k \in DOMAIN m}

\* C16: after a build the forward and the reverse adjacency hold the same
\* multiset of edges: b occurs in depMap[a] as often as a in reverseDepMap[b].
C16_SameEdgeMultiset ==
    Built =>
        LET ids == allProjects \cup Mentioned(depMap) \cup Mentioned(reverseDepMap)
        IN  \A a \in ids, b \in ids :
                Count(b, Lookup(depMap, a)) = Count(a, Lookup(reverseDepMap, b))

\* C16 witness: a build over a manifest that names the same project twice and
\* a second manifest that names it too.
C16_Witness ==
    /\ Built
    /\ \E a \in allProjects, b \in allProjects, c \in allProjects :
           /\ a # c
           /\ Count(b, Lookup(depMap, a)) = 2
           /\ Count(b, Lookup(depMap, c)) > 0

\* C17: a build depends on the manifests alone: whatever the maps held from
\* earlier builds, it yields the maps of a first build over these manifests.
C17_BuildIsFunctionOfManifests ==
    Built =>
        /\ depMap = buildGraph(manifests).depMap
        /\ reverseDepMap = buildGraph(manifests).reverseDepMap
        /\ ret = GraphOf(buildGraph(manifests))

\* C17 witness: a rebuild with edges, after a build over other manifests that
\* had edges too.
C17_Witness ==
    /\ Built
    /\ reverseDepMap # EmptyMap
    /\ op.before.reverseDepMap # EmptyMap
    /\ op.before.reverseDepMap # reverseDepMap

\* C18: after a build every identifier of an edge is a project of the
\* registry: keys and members of both maps, from and to of the returned edges.
C18_EdgesWithinUniverse ==
    Built =>
        /\ Mentioned(depMap) \subseteq allProjects
        /\ Mentioned(reverseDepMap) \subseteq allProjects
        /\ \A i \in 1..Len(ret.edges) :
               ret.edges[i].from \in allProjects /\ ret.edges[i].to \in allProjects

\* A manifest that is missing, read as one without directive.
AsEmptyFile(file) == IF file.exists THEN file ELSE [exists |-> TRUE, deps |-> <<>>]

\* C19: a build completes whichever manifests are missing; a project whose
\* manifest is missing or holds no directive has an empty forward list and
\* no edge, and the graph is the one of the same manifests with every
\* missing one replaced by an empty one.
C19_MissingManifestIsLeaf ==
    Built =>
        /\ DOMAIN depMap = allProjects
        /\ Len(ret.nodes) = NumProjects
        /\ \A p \in allProjects :
               (~manifests[p].exists \/ manifests[p].deps = <<>>) =>
                   /\ depMap[p] = <<>>
                   /\ \A i \in 1..Len(ret.edges) : ret.edges[i].from # p
                   /\ \A k \in DOMAIN reverseDepMap : Count(p, reverseDepMap[k]) = 0
        /\ LET g == buildGraph([p \in allProjects |-> AsEmptyFile(manifests[p])])
           IN  depMap = g.depMap /\ reverseDepMap = g.reverseDepMap

\* C19 witness: a build over one missing manifest, one without directive and
\* one with directives.
C19_Witness ==
    /\ Built
    /\ Len(ret.edges) > 0
    /\ \E p \in GraphIds : ~manifests[p].exists
    /\ \E p \in allProjects : manifests[p].exists /\ manifests[p].deps = <<>>

\* ------------------------------------------------------ claims on applyIdea
\* The positions of a descriptor at which an exclusion entry for proj stands.
EntriesFor(content, proj) ==
    {i \in 1..Len(content) :
        /\ content[i] = ExcludeOpen
        /\ i + Len(proj) + 1 <= Len(content)
        /\ SubSeq(content, i + 1, i + Len(proj)) = proj
        /\ content[i + Len(proj) + 1] = ExcludeClose}

\* C20: applyIdea loads the current config; the descriptor it writes has one
\* exclusion entry per registry project that computeIncluded of that config
\* leaves out and no other entry, and the answer is {success: true}; when
\* creating the directory or writing the file fails, the answer is
\* {error: message} and not success.
C20_DescriptorExcludesTheRest ==
    op.name = "applyIdea" =>
        LET config == readConfig(op.file)
            included == computeIncluded(config.focusedProjects, config.downstreamHops)
            failed == op.fs \in {"openFails", "writeFails"}
                          \/ (op.fs = "mkdirFails" /\ ~op.dir)
        IN  IF failed
            THEN /\ DOMAIN ret.body = {"error"}
                 /\ ret.body.error = FsMessage(op.fs)
            ELSE /\ ret.body = [success |-> TRUE]
                 /\ imlFile.exists
                 /\ \A q \in allProjects :
                        Cardinality(EntriesFor(imlFile.content, q))
                            = IF q \in included THEN 0 ELSE 1
                 /\ Cardinality({i \in 1..Len(imlFile.content) :
                                    imlFile.content[i] = ExcludeOpen})
                        = Cardinality(allProjects \ included)

\* C20 witness: a descriptor written for a saved config whose included set
\* holds a dependent besides the focused project and leaves projects out.
C20_Witness ==
    /\ op.name = "applyIdea"
    /\ op.fs = "ok"
    /\ op.file.exists
    /\ LET config == readConfig(op.file)
           included == computeIncluded(config.focusedProjects, config.downstreamHops)
       IN  /\ Elems(config.focusedProjects) # included
           /\ included # allProjects
           /\ \E q \in allProjects : EntriesFor(imlFile.content, q) # {}

\* -------------------------------------------------- claims on the watcher
\* The most recent callback handled a query that succeeded / that failed.
TickSucceeded == handled # <<>> /\ ~handled[1].error

TickFailed == handled # <<>> /\ handled[1].error

\* C11: a path that stays dirty is in the new-changes delta on the first tick
\* that observes it dirty and on no later tick: a path the query reports dirty
\* is in the delta exactly when the last query that succeeded before did not
\* report it.
C11_DirtyReportedOnce ==
    TickSucceeded =>
        \A path \in DirtyPaths(handled[1].tree) :
            (path \in handled[1].newChanges) <=> (path \notin handled[1].prevDirty)

\* C12: at most one status query is in flight at any time; a tick that comes
\* due while one is in flight starts none.
C12_OneQueryInFlight == Len(execs) <= 1

\* C13: a tick whose status query fails publishes nothing and leaves
\* lastKnownChanges as it was, and the timer keeps ticking afterwards.
C13_FailedTickIsNoOp ==
    TickFailed =>
        /\ lastKnownChanges = handled[1].before
        /\ handled[1].emitted = <<>>
        /\ polling
        /\ (ticks < MaxTicks /\ Len(execs) < MaxExecs => ENABLED Tick)

\* C13 witness: the query of the second tick failed while the snapshot held
\* the dirty paths of the first.
C13_Witness ==
    /\ TickFailed
    /\ handled[1].id > 1
    /\ lastKnownChanges # {}

\* The first segment of a path: the text before the first slash.
LeadingSegment(path) == SubSeq(path, 1, RunEndNot(path, 1, {"/"}) - 1)

\* C14: a successful tick publishes exactly when a newly dirty path has a
\* leading segment that names a project outside the focused list loaded on
\* that tick, and changedProjects is the set of those projects, none focused.
C14_NotifiesNonFocused ==
    TickSucceeded =>
        LET rec == handled[1]
            focused == IF rec.loaded = <<>> THEN {}
                       ELSE Elems(rec.loaded[1].focusedProjects)
            owners == {LeadingSegment(c) : c \in rec.newChanges} \cap allProjects
        IN  /\ (rec.emitted # <<>>) <=> (owners \ focused # {})
            /\ rec.emitted # <<>> =>
                   /\ rec.emitted[1].changedProjects = owners \ focused
                   /\ rec.emitted[1].changedProjects \cap focused = {}

\* C15: after a tick whose query succeeded, lastKnownChanges is the dirty-path
\* set built from that query's output, notification or not.
C15_SnapshotReplaced ==
    TickSucceeded =>
        lastKnownChanges = CurrentChanges(StatusOutput(handled[1].tree))

\* C15 witness: a tick with new changes that were all filtered out replaced a
\* snapshot that held other paths.
C15_Witness ==
    /\ TickSucceeded
    /\ handled[1].newChanges # {}
    /\ handled[1].emitted = <<>>
    /\ handled[1].before # {}
    /\ handled[1].before # lastKnownChanges

\* The status entries of a query output, read line by line with nothing
\* stripped: the two-character code, one separator, then the path.
StatusPairs(stdout) ==
    LET lines == SelectSeq(SplitLines(stdout), LAMBDA line : Len(line) > 0)
    IN  {[code |-> SubSeq(lines[i], 1, 2), path |-> SubSeq(lines[i], 4, Len(lines[i]))] :
            i \in 1..Len(lines)}

\* C22: on a successful tick the current dirty-path set is exactly the set of
\* paths of the status entries whose two-character code is not blank, the path
\* being the complete text after the code and its separator, for every line of
\* the output whatever its position and its code.
C22_DirtySetIsEntryPaths ==
    TickSucceeded =>
        handled[1].currentChanges =
            {e.path : e \in {x \in StatusPairs(StatusOutput(handled[1].tree)) :
                                 x.code # <<" ", " ">>}}

\* A tick published a notification.
Published == TickSucceeded /\ handled[1].emitted # <<>>

\* C23: in every published notification, excluded is the project universe
\* minus the included set computed from the config loaded on that tick, so the
\* two are disjoint and every universe project is in exactly one of them.
C23_ExcludedIsComplement ==
    Published =>
        LET note == handled[1].emitted[1]
            config == handled[1].loaded[1]
        IN  /\ note.included =
                   computeIncluded(config.focusedProjects, config.downstreamHops)
            /\ note.excluded = allProjects \ note.included
            /\ note.included \cap note.excluded = {}
            /\ \A q \in allProjects :
                   (q \in note.included) # (q \in note.excluded)

\* C23 witness: project-001 is focused with one hop, a change in project-002
\* is published with included = {project-001, project-002} and the other
\* three projects excluded.
C23_Witness ==
    /\ Published
    /\ handled[1].loaded[1].focusedProjects = <<ProjectId(1)>>
    /\ handled[1].emitted[1].changedProjects = {ProjectId(2)}
    /\ handled[1].emitted[1].included = {ProjectId(1), ProjectId(2)}
    /\ handled[1].emitted[1].excluded = allProjects \ {ProjectId(1), ProjectId(2)}

\* C26: under every interleaving of tick starts and query completions,
\* lastKnownChanges is never overwritten by the result of a query started
\* before the query whose result it holds: the snapshot is that of the most
\* recently started query among those that completed successfully.
C26_SnapshotNeverGoesBack ==
    TickSucceeded => handled[1].id > handled[1].prevHeld

\* ------------------------------------- claims on the statement-level call
\* The statement-level call returns what the operator computeIncluded does.
WalkAgrees ==
    walk.pc = "done" => ret = computeIncluded(op.focusedProjects, op.downstreamHops)

\* Every node a call can touch, and the number of reverse-adjacency entries.
WalkNodes ==
    Elems(op.focusedProjects) \cup DOMAIN reverseDepMap
        \cup UNION {Elems(reverseDepMap[k]) : k \in DOMAIN reverseDepMap}

RECURSIVE SumLen(_, _)
SumLen(m, keys) ==
    IF keys = {} THEN 0
    ELSE LET k == CHOOSE x \in keys : TRUE
         IN  Len(m[k]) + SumLen(m, keys \ {k})

\* C7: computeIncluded terminates for every graph, focused list and hop bound,
\* cycles and self-loops included: a call in progress always has a next step,
\* every addDependents invocation beyond the one per focused project is paid
\* for by a project newly added to the result, as is the first of all (so the
\* invocations number less than the focused list plus the result), and the number of steps stays
\* within a budget that is linear in the focused list and the graph.
C7_Terminates ==
    /\ walk.pc = "running" => ENABLED NextWalk
    /\ walk.pc # "idle" =>
           /\ walk.calls < Len(op.focusedProjects) + Cardinality(walk.included)
           /\ walk.steps <= 2 + Len(op.focusedProjects)
                                  * (1 + Cardinality(WalkNodes)
                                       + SumLen(reverseDepMap, DOMAIN reverseDepMap))

\* C7 witness: a finished call with two hops that walked round a two-project
\* cycle of the reverse adjacency.
C7_Witness ==
    /\ walk.pc = "done"
    /\ op.downstreamHops > 1
    /\ \E p \in Elems(op.focusedProjects) :
           \E q \in Elems(Lookup(reverseDepMap, p)) :
               /\ q # p
               /\ p \in Elems(Lookup(reverseDepMap, q))
               /\ q \in ret


\* ------------------------------------------------- claims on POST /api/config
\* A failure result carries the message when it names it in an error field or
\* shows it on the error page.
Carries(r, message) ==
    \/ "error" \in DOMAIN r /\ r.error = message
    \/ "page" \in DOMAIN r /\ message \in Elems(r.page.shown)

\* C21: when writeConfig throws during POST config, the caller receives an
\* explicit failure result that carries the underlying error message, and never
\* {success: true}.
C21_WriteFailureSurfaced ==
    op.name = "writeConfigThrew"
        => /\ "success" \notin DOMAIN ret
           /\ Carries(ret, FsMessage(op.fs))


\* ------------------------------------------- claims on the server variants
\* C24: for every graph, focused list (the empty list included) and hop bound,
\* computeIncluded of focus-ui/server.js returns the same set as computeIncluded
\* of the watcher-enabled server, so applyIdea excludes the same projects in
\* both.
C24_VariantsAgree ==
    op.name = "computeIncludedInBoth"
        => /\ ret.focusUi.included = ret.watcher.included
           /\ ret.focusUi.excluded = ret.watcher.excluded


\* ------------------------------------------------------ claims on the client
\* C25: for every graph, focused set and hop bound, the included set the client
\* derives for display from the edges of GET graph equals the set the server's
\* computeIncluded returns for the same graph, focus and hops.
C25_ClientShowsServerSet ==
    op.name = "load" => ret.client = ret.server


\* ------------------------------------------------- claims on the global maps
\* The two global maps as one value.
Maps == [depMap |-> depMap, reverseDepMap |-> reverseDepMap]

\* A step of POST /api/applyIdea that answered success.
AppliedIdea ==
    /\ op'.name = "applyIdea"
    /\ UNCHANGED <<manifests, configFile, watchVars>>
    /\ ret'.status = 200

\* A step of a watcher callback that published a notification.
PublishedNow ==
    /\ Len(execs') < Len(execs)
    /\ handled'[1].emitted # <<>>

\* C27: depMap and reverseDepMap are changed only by buildGraph: a step that
\* changes them is a build over the manifests and touches neither the config,
\* the descriptor nor the watcher, so a config save, applyIdea and a watcher
\* tick leave them as they are, and applyIdea and the watcher compute the
\* included set over the maps of the most recent build.
C27_OnlyBuildChangesMaps ==
    [][/\ Maps' # Maps =>
              /\ op'.name = "buildGraph"
              /\ Maps' = buildGraph(manifests)
              /\ UNCHANGED <<manifests, configFile, watchVars, ideaVars>>
       /\ AppliedIdea =>
              LET config == readConfig(configFile)
              IN  imlFile'.content =
                      ImlContent(ExcludedOf(computeIncluded(config.focusedProjects,
                                                            config.downstreamHops)))
       /\ PublishedNow =>
              LET config == handled'[1].loaded[1]
              IN  handled'[1].emitted[1].included =
                      computeIncluded(config.focusedProjects, config.downstreamHops)
      ]_vars

\* C27 witness: the manifest of project-002 lost its dependency after the last
\* build, the config focusing project-001 was saved after that, and applyIdea
\* still kept project-002, a dependent in the maps of that build.
C27_Witness ==
    /\ op.name = "applyIdea"
    /\ ret.status = 200
    /\ configFile = writeConfig(<<ProjectId(1)>>, 1)
    /\ manifests[ProjectId(2)].deps = <<>>
    /\ Maps # buildGraph(manifests)
    /\ imlFile.content = ImlContent(ExcludedOf({ProjectId(1), ProjectId(2)}))

====
